---------------------------- MODULE Spec2Model ----------------------------
(***************************************************************************)
(* Manika_Sharma_Project.ipynb: a notebook that labels Wikipedia talk      *)
(* comments by majority vote, cleans them with five str.replace calls,     *)
(* fits five scikit-learn pipelines in turn and applies `clf` to a sample  *)
(* of the talk corpus.                                                     *)
(*                                                                         *)
(* A str is a sequence of one-character strings.  A DataFrame is a         *)
(* sequence of row records.  A name of the kernel that is not bound yet    *)
(* is <<>>, a bound one is <<value>>.  The cells run top to bottom (Run    *)
(* All): pc is the position of the next cell to run and the run stops at   *)
(* the first cell that raises.                                             *)
(***************************************************************************)
EXTENDS Integers, Sequences, FiniteSets, TLC

VARIABLES
    remote,                  \* what the figshare URLs serve (the input data)
    fs,                      \* the working directory: file name -> content
    pc,                      \* position in Cells of the next cell to run
    halted,                  \* a cell raised: Run All stopped there
    defs,                    \* imports done and helper functions defined
    comments, annotations, labels,
    train_comments, test_comments,
    clf, auc, predicted_values, precision_recall_fscore, cmat,
    out,                     \* the value the last cell displayed
    corpus_user, corpus_article, corpus

vars == <<remote, fs, pc, halted, defs, comments, annotations, labels,
          train_comments, test_comments, clf, auc, predicted_values,
          precision_recall_fscore, cmat, out, corpus_user, corpus_article,
          corpus>>

Unset == <<>>
Some(v) == <<v>>
IsSet(x) == x # <<>>
Val(x) == x[1]

Range(s) == {s[i] : i \in DOMAIN s}

\* a pipeline that has scored no document yet
NoScores == [d \in {} |-> 0]

RECURSIVE Flatten(_)
Flatten(ss) == IF ss = <<>> THEN <<>> ELSE Head(ss) \o Flatten(Tail(ss))

\* every sequence over S of length at most n
SeqsUpTo(S, n) == UNION {[1..k -> S] : k \in 0..n}

RECURSIVE SelectRows(_, _)
\* the rows of df, in order, whose index is in keep
SelectRows(df, keep) ==
    IF df = <<>> THEN <<>>
    ELSE LET rest == SelectRows(Tail(df), {i - 1 : i \in keep \ {1}})
         IN  IF 1 \in keep THEN <<Head(df)>> \o rest ELSE rest

(***************************************************************************)
(* Strings                                                                 *)
(***************************************************************************)
NEWLINE_TOKEN == <<"N","E","W","L","I","N","E","_","T","O","K","E","N">>
TAB_TOKEN == <<"T","A","B","_","T","O","K","E","N">>
\* the Python literal "/[^a-z \d \' \. \, \" \: \; \? \- \!  \s]/i": \' and \"
\* are escapes, every other backslash stays in the string
PunctPattern ==
    <<"/","[","^","a","-","z"," ","\\","d"," ","'"," ","\\","."," ","\\",",",
      " ","\""," ","\\",":"," ","\\",";"," ","\\","?"," ","\\","-"," ","\\",
      "!"," "," ","\\","s","]","/","i">>
\* r"http\S+"
HttpPattern == <<"h","t","t","p","\\","S","+">>
DigitPattern == <<"[","0","-","9","]">>
SPACE == <<" ">>
EMPTY == <<>>

IsPrefix(p, s) == Len(p) <= Len(s) /\ SubSeq(s, 1, Len(p)) = p

Contains(s, sub) ==
    \E i \in 1..(Len(s) - Len(sub) + 1) : SubSeq(s, i, i + Len(sub) - 1) = sub

\* the positions at which sub occurs in s
Occurrences(s, sub) ==
    {i \in 1..(Len(s) - Len(sub) + 1) : SubSeq(s, i, i + Len(sub) - 1) = sub}

RECURSIVE Replace(_, _, _)
\* str.replace(old, new) for a non-empty old: every non-overlapping
\* occurrence of the literal text old, found left to right, becomes new
Replace(s, old, new) ==
    LET occ == Occurrences(s, old)
    IN  IF occ = {} THEN s
        ELSE LET first == CHOOSE i \in occ : \A j \in occ : i <= j
             IN  SubSeq(s, 1, first - 1) \o new
                 \o Replace(SubSeq(s, first + Len(old), Len(s)), old, new)

UpperCase == <<"A","B","C","D","E","F","G","H","I","J","K","L","M","N","O",
               "P","Q","R","S","T","U","V","W","X","Y","Z">>
LowerCase == <<"a","b","c","d","e","f","g","h","i","j","k","l","m","n","o",
               "p","q","r","s","t","u","v","w","x","y","z">>
Digits == {"0","1","2","3","4","5","6","7","8","9"}
Whitespace == {" "}
Letters == Range(UpperCase) \cup Range(LowerCase)
\* the marks the punctuation rule lists as kept
KeptMarks == {"'", ".", ",", "\"", ":", ";", "?", "-", "!"}

Lower(c) ==
    IF c \in Range(UpperCase)
    THEN LowerCase[CHOOSE i \in DOMAIN UpperCase : UpperCase[i] = c]
    ELSE c

\* \w of the default token_pattern
WordChar(c) == c \in Letters \cup Digits \cup {"_"}

(***************************************************************************)
(* The cleaning cell                                                       *)
(***************************************************************************)
\* the five lambdas of the cleaning cell, applied in order to one comment
CleanComment(x) ==
    LET a == Replace(x, NEWLINE_TOKEN, SPACE)
        b == Replace(a, TAB_TOKEN, SPACE)
        c == Replace(b, PunctPattern, SPACE)
        d == Replace(c, HttpPattern, EMPTY)
    IN  Replace(d, DigitPattern, EMPTY)

\* the two lambdas of the "Apply model" cell
CleanCorpusComment(x) ==
    Replace(Replace(x, NEWLINE_TOKEN, SPACE), TAB_TOKEN, SPACE)

(***************************************************************************)
(* CountVectorizer().build_analyzer() and the stemmer                      *)
(***************************************************************************)
RECURSIVE Tokens(_, _)
\* the default analyzer: lower-case, then every maximal run of two or more
\* word characters (token_pattern (?u)\b\w\w+\b); no stop word list
\* (stop_words = None).  cur is the run being read.
Tokens(s, cur) ==
    IF s = <<>> THEN (IF Len(cur) >= 2 THEN <<cur>> ELSE <<>>)
    ELSE IF WordChar(Head(s))
         THEN Tokens(Tail(s), Append(cur, Lower(Head(s))))
         ELSE (IF Len(cur) >= 2 THEN <<cur>> ELSE <<>>) \o Tokens(Tail(s), <<>>)

analyzer(doc) == Tokens(doc, <<>>)

Vowels == {"a", "e", "i", "o", "u", "y"}

\* EnglishStemmer.stem: a word of at most two letters is returned as it is;
\* of the Snowball steps only step 1a (sses, ied/ies, us/ss, s) changes a
\* word of the modelled texts
stem(w) ==
    LET n == Len(w)
        ends(suf) == n >= Len(suf) /\ SubSeq(w, n - Len(suf) + 1, n) = suf
    IN  IF n <= 2 THEN w
        ELSE IF ends(<<"s","s","e","s">>) THEN SubSeq(w, 1, n - 2)
        ELSE IF ends(<<"i","e","d">>) \/ ends(<<"i","e","s">>)
             THEN (IF n > 4 THEN SubSeq(w, 1, n - 2) ELSE SubSeq(w, 1, n - 1))
        ELSE IF ends(<<"u","s">>) \/ ends(<<"s","s">>) THEN w
        ELSE IF ends(<<"s">>) /\ \E i \in 1..(n - 2) : w[i] \in Vowels
             THEN SubSeq(w, 1, n - 1)
        ELSE w

\* def stemmed_words(doc): (stemmer.stem(w) for w in analyzer(doc))
stemmed_words(doc) ==
    LET ws == analyzer(doc) IN [i \in DOMAIN ws |-> stem(ws[i])]

\* nltk.corpus.stopwords is imported by the first cell; these are the words
\* of its English list that the modelled texts can hold
StopWords == {<<"a","t">>, <<"i","s">>, <<"i","t">>}

(***************************************************************************)
(* The label step and the join                                             *)
(***************************************************************************)
RECURSIVE GroupValues(_, _)
\* annotations.groupby('rev_id')['attack']: the attack values of the rows
\* of group r, in file order
GroupValues(ann, r) ==
    IF ann = <<>> THEN <<>>
    ELSE IF Head(ann).rev_id = r
         THEN <<Head(ann).attack>> \o GroupValues(Tail(ann), r)
         ELSE GroupValues(Tail(ann), r)

RECURSIVE Sum(_)
Sum(s) == IF s = <<>> THEN 0 ELSE Head(s) + Sum(Tail(s))

\* .mean() of a group, as the fraction num / den
Mean(s) == [num |-> Sum(s), den |-> Len(s)]

\* (mean >= 0.5): a tie counts as an attack
IsMajorityOrTie(m) == 2 * m.num >= m.den

\* mean > 0.5
IsMajority(m) == 2 * m.num > m.den

PyBool(b) == IF b THEN "True" ELSE "False"

\* labels = annotations.groupby('rev_id')['attack'].mean() > 0.5: a boolean
\* Series indexed by the rev_ids that have annotations
LabelSeries(ann) ==
    [r \in {ann[i].rev_id : i \in DOMAIN ann} |->
        PyBool(IsMajority(Mean(GroupValues(ann, r))))]

\* comments['attack'] = labels: aligned on the index (rev_id); a comment
\* whose rev_id is not in labels gets NaN
JoinLabels(df, lab) ==
    [i \in DOMAIN df |->
        [rev_id |-> df[i].rev_id, comment |-> df[i].comment,
         split |-> df[i].split,
         attack |-> IF df[i].rev_id \in DOMAIN lab THEN lab[df[i].rev_id]
                    ELSE "NaN"]]

\* comments['comment'] = comments['comment'].apply(...), five times over
CleanComments(df) ==
    [i \in DOMAIN df |-> [df[i] EXCEPT !.comment = CleanComment(@)]]

\* corpus['comment'] = corpus['comment'].apply(...), twice over
CleanCorpusComments(df) ==
    [i \in DOMAIN df |-> [df[i] EXCEPT !.comment = CleanCorpusComment(@)]]

\* comments.query("split=='...'"): the rows of that split, in order
QuerySplit(df, s) == SelectRows(df, {i \in DOMAIN df : df[i].split = s})

\* df.head(): the first five rows
HeadRows(df) == SubSeq(df, 1, IF Len(df) < 5 THEN Len(df) ELSE 5)

(***************************************************************************)
(* The code cells, in notebook order                                       *)
(***************************************************************************)
\* the cleaning cell moved below the first classifier cell
CellsCleanLate ==
    <<"imports", "download", "read_csv", "unique", "labels", "join",
      "query_attack", "lr", "clean", "rf", "svc", "nb", "mlp",
      "nice", "nasty", "imports2", "download_corpus", "def_load",
      "load_corpus", "apply", "plot">>

Cells == <<"imports", "download", "read_csv", "unique", "labels", "join",
           "clean", "query_attack", "lr", "rf", "svc", "nb", "mlp",
           "nice", "nasty", "imports2", "download_corpus", "def_load",
           "load_corpus", "apply", "plot">>

PosOf(c) == CHOOSE i \in DOMAIN Cells : Cells[i] = c

\* the cell at pc is c and Run All has not stopped
AtCell(c) == ~halted /\ pc \in DOMAIN Cells /\ Cells[pc] = c

Done == pc = Len(Cells) + 1

kernel == <<comments, annotations, labels, train_comments, test_comments,
            clf, auc, predicted_values, precision_recall_fscore, cmat, out,
            corpus_user, corpus_article, corpus>>

\* the cell raised: nothing it had not yet assigned changes and Run All stops
Raise == halted' = TRUE /\ pc' = pc

Advance == halted' = FALSE /\ pc' = pc + 1

\* import re, string, nltk ... from nltk.corpus import stopwords
Imports ==
    /\ AtCell("imports")
    /\ defs' = defs \cup {"imports"}
    /\ Advance
    /\ UNCHANGED <<remote, fs, kernel>>

\* def download_file(url, fname), then the two downloads
Download ==
    /\ AtCell("download")
    /\ IF "imports" \in defs
       THEN /\ defs' = defs \cup {"download_file"}
            /\ fs' = ("attack_annotated_comments.tsv" :> remote.comments_tsv)
                     @@ ("attack_annotations.tsv" :> remote.annotations_tsv)
                     @@ fs
            /\ Advance
       ELSE /\ Raise
            /\ UNCHANGED <<defs, fs>>
    /\ UNCHANGED <<remote, kernel>>

\* comments = pd.read_csv(..., index_col = 0); annotations = pd.read_csv(...)
ReadCsv ==
    /\ AtCell("read_csv")
    /\ IF /\ "imports" \in defs
          /\ {"attack_annotated_comments.tsv", "attack_annotations.tsv"}
                \subseteq DOMAIN fs
       THEN /\ comments' = Some(fs["attack_annotated_comments.tsv"])
            /\ annotations' = Some(fs["attack_annotations.tsv"])
            /\ Advance
       ELSE /\ Raise
            /\ UNCHANGED <<comments, annotations>>
    /\ UNCHANGED <<remote, fs, defs, labels, train_comments, test_comments,
                   clf, auc, predicted_values, precision_recall_fscore, cmat,
                   out, corpus_user, corpus_article, corpus>>

\* len(annotations['rev_id'].unique())
Unique ==
    /\ AtCell("unique")
    /\ IF IsSet(annotations)
       THEN /\ out' = Some(Cardinality({Val(annotations)[i].rev_id :
                                          i \in DOMAIN Val(annotations)}))
            /\ Advance
       ELSE /\ Raise
            /\ UNCHANGED out
    /\ UNCHANGED <<remote, fs, defs, comments, annotations, labels,
                   train_comments, test_comments, clf, auc, predicted_values,
                   precision_recall_fscore, cmat, corpus_user, corpus_article,
                   corpus>>

\* labels = annotations.groupby('rev_id')['attack'].mean() > 0.5
Labels ==
    /\ AtCell("labels")
    /\ IF IsSet(annotations)
       THEN /\ labels' = Some(LabelSeries(Val(annotations)))
            /\ Advance
       ELSE /\ Raise
            /\ UNCHANGED labels
    /\ UNCHANGED <<remote, fs, defs, comments, annotations, train_comments,
                   test_comments, clf, auc, predicted_values,
                   precision_recall_fscore, cmat, out, corpus_user,
                   corpus_article, corpus>>

\* comments['attack'] = labels
Join ==
    /\ AtCell("join")
    /\ IF IsSet(comments) /\ IsSet(labels)
       THEN /\ comments' = Some(JoinLabels(Val(comments), Val(labels)))
            /\ Advance
       ELSE /\ Raise
            /\ UNCHANGED comments
    /\ UNCHANGED <<remote, fs, defs, annotations, labels, train_comments,
                   test_comments, clf, auc, predicted_values,
                   precision_recall_fscore, cmat, out, corpus_user,
                   corpus_article, corpus>>

\* the five replace calls over comments['comment'], then comments.head()
Clean ==
    /\ AtCell("clean")
    /\ IF IsSet(comments)
       THEN /\ comments' = Some(CleanComments(Val(comments)))
            /\ out' = Some(HeadRows(comments'[1]))
            /\ Advance
       ELSE /\ Raise
            /\ UNCHANGED <<comments, out>>
    /\ UNCHANGED <<remote, fs, defs, annotations, labels, train_comments,
                   test_comments, clf, auc, predicted_values,
                   precision_recall_fscore, cmat, corpus_user, corpus_article,
                   corpus>>

\* comments.query('attack')['comment'].head()
QueryAttack ==
    /\ AtCell("query_attack")
    /\ IF /\ IsSet(comments)
          /\ \A i \in DOMAIN Val(comments) :
                "attack" \in DOMAIN Val(comments)[i]
       THEN /\ out' = Some(HeadRows(SelectRows(Val(comments),
                        {i \in DOMAIN Val(comments) :
                            Val(comments)[i].attack = "True"})))
            /\ Advance
       ELSE /\ Raise
            /\ UNCHANGED out
    /\ UNCHANGED <<remote, fs, defs, comments, annotations, labels,
                   train_comments, test_comments, clf, auc, predicted_values,
                   precision_recall_fscore, cmat, corpus_user, corpus_article,
                   corpus>>

(***************************************************************************)
(* The five classifier cells                                               *)
(***************************************************************************)
\* What a fitted estimator answers is the library's business: a fitted
\* pipeline gives every document one score, in thousandths (the positive
\* class probability of predict_proba; the decision margin where there is no
\* predict_proba), the same one each time it is asked, and predict says
\* True above one half.
Levels == {300, 450, 600}

\* 0.425, in thousandths
AttackThreshold == 425

EstimatorsWithProba ==
    {"LogisticRegression", "RandomForestClassifier", "MultinomialNB",
     "MLPClassifier"}

\* the cell marked FINAL SUBMITTED ONE
LRCell ==
    [name |-> "lr", train_split |-> "train", test_split |-> "test",
     vect |-> [max_df |-> "1.0", min_df |-> 1, max_features |-> 10000,
               ngram_range |-> <<1, 4>>, analyzer |-> "stemmed_words",
               strip_accents |-> {"ascii"}],
     tfidf |-> [norm |-> "l2"],
     estimator |-> "LogisticRegression",
     auc_score |-> "predict_proba"]

RFCell ==
    [name |-> "rf", train_split |-> "train", test_split |-> "test",
     vect |-> [max_df |-> "1.0", min_df |-> 1, max_features |-> 10000,
               ngram_range |-> <<1, 4>>, analyzer |-> "stemmed_words",
               strip_accents |-> {"ascii"}],
     tfidf |-> [norm |-> "l2"],
     estimator |-> "RandomForestClassifier",
     auc_score |-> "predict_proba"]

SVCCell ==
    [name |-> "svc", train_split |-> "train", test_split |-> "test",
     vect |-> [max_df |-> "1.0", min_df |-> 1, max_features |-> 10000,
               ngram_range |-> <<1, 4>>, analyzer |-> "stemmed_words",
               strip_accents |-> {"ascii"}],
     tfidf |-> [norm |-> "l2"],
     estimator |-> "LinearSVC",
     auc_score |-> "predict"]

NBCell ==
    [name |-> "nb", train_split |-> "train", test_split |-> "test",
     vect |-> [max_df |-> "1.0", min_df |-> 1, max_features |-> 10000,
               ngram_range |-> <<1, 4>>, analyzer |-> "stemmed_words",
               strip_accents |-> {"ascii"}],
     tfidf |-> [norm |-> "l2"],
     estimator |-> "MultinomialNB",
     auc_score |-> "predict"]

MLPCell ==
    [name |-> "mlp", train_split |-> "train", test_split |-> "test",
     vect |-> [max_df |-> "1.0", min_df |-> 1, max_features |-> 10000,
               ngram_range |-> <<1, 4>>, analyzer |-> "stemmed_words",
               strip_accents |-> {"ascii"}],
     tfidf |-> [norm |-> "l2"],
     estimator |-> "MLPClassifier",
     auc_score |-> "predict"]

ClassifierCells == {LRCell, RFCell, SVCCell, NBCell, MLPCell}

Column(df, col) == [i \in DOMAIN df |-> df[i][col]]

\* the vocabulary CountVectorizer learns with analyzer = stemmed_words (a
\* callable analyzer: ngram_range and strip_accents are not used); the
\* modelled texts stay far below max_features
Vocabulary(docs) ==
    UNION {Range(stemmed_words(docs[i])) : i \in DOMAIN docs}

\* clf = Pipeline([...]): the pipeline before fit
NewPipeline(cell) ==
    [estimator |-> cell.estimator, vect |-> cell.vect, tfidf |-> cell.tfidf,
     fitted |-> FALSE, vocabulary |-> {}, fit_X |-> <<>>, fit_y |-> <<>>,
     scores |-> NoScores]

\* clf.fit(X, y) raises: no document, no token at all, a label that is not
\* a boolean, or a single class.  (The first cell to fit is the logistic
\* regression one, which needs two classes, and every later cell fits the
\* same rows.)
FitRaises(X, y) ==
    \/ X = <<>>
    \/ Vocabulary(X) = {}
    \/ "NaN" \in Range(y)
    \/ Cardinality(Range(y)) < 2

\* the estimator after clf.fit(X, y), before it has scored anything
Fitted(cell, X, y) ==
    [NewPipeline(cell) EXCEPT !.fitted = TRUE, !.vocabulary = Vocabulary(X),
                              !.fit_X = X, !.fit_y = y]

\* the fitted pipeline once it has also been asked about docs, answering
\* more for the documents it has not seen yet
Asked(c, docs, more) ==
    [c EXCEPT !.scores =
        [d \in (DOMAIN c.scores) \cup Range(docs) |->
            IF d \in DOMAIN c.scores THEN c.scores[d] ELSE more[d]]]

\* the documents of docs that c has not scored yet
NewDocs(c, docs) == Range(docs) \ DOMAIN c.scores

\* clf.predict_proba(docs)[:, 1], in thousandths
PredictProba(c, docs) == [i \in DOMAIN docs |-> c.scores[docs[i]]]

\* clf.predict(docs)
Predict(c, docs) == [i \in DOMAIN docs |-> PyBool(c.scores[docs[i]] > 500)]

\* a boolean prediction as the number roc_auc_score ranks by
AsNumber(b) == IF b = "True" THEN 1 ELSE 0

\* roc_auc_score raises when y_true does not hold both classes
AucRaises(y) == Range(y) # {"True", "False"}

\* roc_auc_score(y_true, y_score): the share of (positive, negative) pairs
\* the score ranks right, a tied pair counting one half; as <<num, den>>
RocAucScore(y, score) ==
    LET pos == {i \in DOMAIN y : y[i] = "True"}
        neg == {i \in DOMAIN y : y[i] = "False"}
        won == {pr \in pos \X neg : score[pr[1]] > score[pr[2]]}
        tie == {pr \in pos \X neg : score[pr[1]] = score[pr[2]]}
    IN  <<2 * Cardinality(won) + Cardinality(tie),
          2 * Cardinality(pos) * Cardinality(neg)>>

\* confusion_matrix(y_true, y_pred): rows are the true class (False, True),
\* columns the predicted one
ConfusionMatrix(y, pred) ==
    LET n(t, p) == Cardinality({i \in DOMAIN y : y[i] = t /\ pred[i] = p})
    IN  <<<<n("False", "False"), n("False", "True")>>,
          <<n("True", "False"), n("True", "True")>>>>

\* precision_recall_fscore_support(y_true, y_pred), each entry per class
\* (False, True) and each ratio as <<num, den>> (x / 0 is reported as 0)
PrecisionRecallFscoreSupport(y, pred) ==
    LET m == ConfusionMatrix(y, pred)
    IN  [precision |-> <<<<m[1][1], m[1][1] + m[2][1]>>,
                         <<m[2][2], m[2][2] + m[1][2]>>>>,
         recall    |-> <<<<m[1][1], m[1][1] + m[1][2]>>,
                         <<m[2][2], m[2][2] + m[2][1]>>>>,
         fscore    |-> <<<<2 * m[1][1], 2 * m[1][1] + m[2][1] + m[1][2]>>,
                         <<2 * m[2][2], 2 * m[2][2] + m[1][2] + m[2][1]>>>>,
         support   |-> <<m[1][1] + m[1][2], m[2][1] + m[2][2]>>]

\* the score the cell hands to roc_auc_score
AucInput(cell, c, docs) ==
    IF cell.auc_score = "predict_proba"
    THEN PredictProba(c, docs)
    ELSE LET p == Predict(c, docs) IN [i \in DOMAIN p |-> AsNumber(p[i])]

\* one classifier cell: select the rows, build the pipeline, fit, score the
\* test rows, report
RunClassifierCell(cell) ==
    /\ AtCell(cell.name)
    /\ IF ~(/\ IsSet(comments)
            /\ \A i \in DOMAIN Val(comments) :
                  "attack" \in DOMAIN Val(comments)[i])
       THEN /\ Raise
            /\ UNCHANGED <<train_comments, test_comments, clf, auc,
                           predicted_values, precision_recall_fscore, cmat>>
       ELSE LET train == QuerySplit(Val(comments), cell.train_split)
                test == QuerySplit(Val(comments), cell.test_split)
                X == Column(train, "comment")
                y == Column(train, "attack")
                Xt == Column(test, "comment")
                yt == Column(test, "attack")
            IN  /\ train_comments' = Some(train)
                /\ test_comments' = Some(test)
                /\ IF FitRaises(X, y)
                   THEN /\ clf' = Some(NewPipeline(cell))
                        /\ Raise
                        /\ UNCHANGED <<auc, predicted_values,
                                       precision_recall_fscore, cmat>>
                   ELSE IF AucRaises(yt)
                   THEN /\ clf' = Some(Fitted(cell, X, y))
                        /\ Raise
                        /\ UNCHANGED <<auc, predicted_values,
                                       precision_recall_fscore, cmat>>
                   ELSE \E more \in [Range(Xt) -> Levels] :
                        LET c == Asked(Fitted(cell, X, y), Xt, more)
                            pred == Predict(c, Xt)
                        IN  /\ clf' = Some(c)
                            /\ auc' = Some(RocAucScore(yt, AucInput(cell, c, Xt)))
                            /\ predicted_values' = Some(pred)
                            /\ precision_recall_fscore' =
                                   Some(PrecisionRecallFscoreSupport(yt, pred))
                            /\ cmat' = Some(ConfusionMatrix(yt, pred))
                            /\ Advance
    /\ UNCHANGED <<remote, fs, defs, comments, annotations, labels, out,
                   corpus_user, corpus_article, corpus>>

FitLogisticRegression == RunClassifierCell(LRCell)
FitRandomForest == RunClassifierCell(RFCell)
FitLinearSVC == RunClassifierCell(SVCCell)
FitMultinomialNB == RunClassifierCell(NBCell)
FitMLP == RunClassifierCell(MLPCell)

Nice ==
    <<"T","h","a","n","k","s"," ","f","o","r"," ","y","o","u"," ","c","o","n",
      "t","r","i","b","u","t","i","o","n",","," ","y","o","u"," ","d","i","d",
      " ","a"," ","g","r","e","a","t"," ","j","o","b","!">>
Nasty ==
    <<"P","e","o","p","l","e"," ","a","s"," ","s","t","u","p","i","d"," ","a",
      "s"," ","y","o","u"," ","s","h","o","u","l","d"," ","n","o","t"," ","e",
      "d","i","t"," ","W","i","k","i","p","e","d","i","a","!">>

\* clf.predict([doc]), displayed
PredictExample(cellname, doc) ==
    /\ AtCell(cellname)
    /\ IF IsSet(clf) /\ Val(clf).fitted
       THEN \E more \in [NewDocs(Val(clf), <<doc>>) -> Levels] :
               LET c == Asked(Val(clf), <<doc>>, more)
               IN  /\ clf' = Some(c)
                   /\ out' = Some(Predict(c, <<doc>>))
                   /\ Advance
       ELSE /\ Raise
            /\ UNCHANGED <<clf, out>>
    /\ UNCHANGED <<remote, fs, defs, comments, annotations, labels,
                   train_comments, test_comments, auc, predicted_values,
                   precision_recall_fscore, cmat, corpus_user, corpus_article,
                   corpus>>

PredictNice == PredictExample("nice", Nice)
PredictNasty == PredictExample("nasty", Nasty)

(***************************************************************************)
(* Prevalence of personal attacks by namespace                             *)
(***************************************************************************)
\* import os, re, bernoulli, seaborn, pyplot
Imports2 ==
    /\ AtCell("imports2")
    /\ defs' = defs \cup {"imports2"}
    /\ Advance
    /\ UNCHANGED <<remote, fs, kernel>>

\* the two downloads, then tar -xzf on each archive
DownloadCorpus ==
    /\ AtCell("download_corpus")
    /\ IF {"download_file", "imports2"} \subseteq defs
       THEN /\ fs' = ("comments_user_2004.tar.gz" :> remote.user_tar)
                     @@ ("comments_article_2004.tar.gz" :> remote.article_tar)
                     @@ ("comments_user_2004" :> remote.user_tar)
                     @@ ("comments_article_2004" :> remote.article_tar)
                     @@ fs
            /\ Advance
       ELSE /\ Raise
            /\ UNCHANGED fs
    /\ UNCHANGED <<remote, defs, kernel>>

\* def load_no_bot_no_admin(ns, year, prob = 0.1)
DefLoad ==
    /\ AtCell("def_load")
    /\ defs' = defs \cup {"load_no_bot_no_admin"}
    /\ Advance
    /\ UNCHANGED <<remote, fs, kernel>>

\* "comments_%s_%d" % (ns, year), for the arguments the notebook passes
DataDir(ns, year) ==
    IF year = 2004 /\ ns = "user" THEN "comments_user_2004"
    ELSE IF year = 2004 /\ ns = "article" THEN "comments_article_2004"
    ELSE "comments_other"

\* re.match("chunk_\d*.tsv", filename): chunk_, digits, any one character,
\* tsv, and anything after
ChunkMatch(filename) ==
    LET pre == <<"c","h","u","n","k","_">>
        rest == SubSeq(filename, Len(pre) + 1, Len(filename))
    IN  /\ IsPrefix(pre, filename)
        /\ \E j \in 0..Len(rest) :
              /\ \A k \in 1..j : rest[k] \in Digits
              /\ Len(rest) >= j + 4
              /\ SubSeq(rest, j + 2, j + 4) = <<"t","s","v">>

\* a filter that lets admins through
KeepRowAdmins(row) == row.bot = 0 /\ row.include = 1

\* df.query("bot == 0 and admin == 0 and include == 1")
KeepRow(row) == row.bot = 0 /\ row.admin = 0 /\ row.include = 1

\* one chunk: read it, draw include for every row, keep the rows of the query
SampleChunk(rows, draw) ==
    LET df == [i \in DOMAIN rows |->
                  [comment |-> rows[i].comment, bot |-> rows[i].bot,
                   admin |-> rows[i].admin, ns |-> rows[i].ns,
                   year |-> rows[i].year, include |-> draw[i]]]
    IN  SelectRows(df, {i \in DOMAIN df : KeepRow(df[i])})

\* the files os.walk finds under data_dir (none when it does not exist)
FilesOf(dir) == IF dir \in DOMAIN fs THEN fs[dir] ELSE <<>>

\* the draws bernoulli.rvs(prob, size=df.shape[0]) can make for the chunks
\* of dir: with 0 < prob < 1, any 0/1 vector of the chunk's length
Draws(dir) ==
    LET files == FilesOf(dir)
        F == {f \in DOMAIN files : ChunkMatch(files[f].name)}
        sizes == {Len(files[f].rows) : f \in F} \cup {0}
        longest == CHOOSE n \in sizes : \A m \in sizes : m <= n
    IN  {d \in [F -> SeqsUpTo({0, 1}, longest)] :
            \A f \in F : Len(d[f]) = Len(files[f].rows)}

RECURSIVE ConcatChunks(_, _, _)
\* pd.concat(dfs) over the matching chunks from file f on
ConcatChunks(files, f, draws) ==
    IF f > Len(files) THEN <<>>
    ELSE (IF ChunkMatch(files[f].name)
          THEN SampleChunk(files[f].rows, draws[f])
          ELSE <<>>) \o ConcatChunks(files, f + 1, draws)

\* load_no_bot_no_admin(ns, year): pd.concat raises on an empty list of
\* frames; sample['ns'] = ns and sample['year'] = year overwrite the columns
load_no_bot_no_admin(ns, year, draws) ==
    LET files == FilesOf(DataDir(ns, year))
        sample == ConcatChunks(files, 1, draws)
    IN  IF \A f \in DOMAIN files : ~ChunkMatch(files[f].name)
        THEN [raised |-> TRUE, sample |-> <<>>]
        ELSE [raised |-> FALSE,
              sample |-> [i \in DOMAIN sample |->
                             [sample[i] EXCEPT !.ns = ns, !.year = year]]]

\* corpus_user, corpus_article, corpus
LoadCorpus ==
    /\ AtCell("load_corpus")
    /\ IF "load_no_bot_no_admin" \notin defs
       THEN /\ Raise
            /\ UNCHANGED <<corpus_user, corpus_article, corpus>>
       ELSE \E du \in Draws(DataDir("user", 2004)) :
            \E da \in Draws(DataDir("article", 2004)) :
               LET u == load_no_bot_no_admin("user", 2004, du)
                   a == load_no_bot_no_admin("article", 2004, da)
               IN  IF u.raised
                   THEN /\ Raise
                        /\ UNCHANGED <<corpus_user, corpus_article, corpus>>
                   ELSE IF a.raised
                   THEN /\ corpus_user' = Some(u.sample)
                        /\ Raise
                        /\ UNCHANGED <<corpus_article, corpus>>
                   ELSE /\ corpus_user' = Some(u.sample)
                        /\ corpus_article' = Some(a.sample)
                        /\ corpus' = Some(u.sample \o a.sample)
                        /\ Advance
    /\ UNCHANGED <<remote, fs, defs, comments, annotations, labels,
                   train_comments, test_comments, clf, auc, predicted_values,
                   precision_recall_fscore, cmat, out>>

\* the "Apply model" cell: two replace calls over corpus['comment'], then
\* corpus['attack'] = clf.predict_proba(corpus['comment'])[:,1] > 0.425.
\* predict_proba raises on a pipeline that is not fitted, on an estimator
\* without predict_proba and on an empty frame.
ApplyModel ==
    /\ AtCell("apply")
    /\ IF ~IsSet(corpus)
       THEN /\ Raise
            /\ UNCHANGED <<corpus, clf>>
       ELSE LET cleaned == CleanCorpusComments(Val(corpus))
                docs == Column(cleaned, "comment")
            IN  IF \/ ~IsSet(clf)
                   \/ ~Val(clf).fitted
                   \/ Val(clf).estimator \notin EstimatorsWithProba
                   \/ docs = <<>>
                THEN /\ corpus' = Some(cleaned)
                     /\ Raise
                     /\ UNCHANGED clf
                ELSE \E more \in [NewDocs(Val(clf), docs) -> Levels] :
                        LET c == Asked(Val(clf), docs, more)
                            p == PredictProba(c, docs)
                        IN  /\ clf' = Some(c)
                            /\ corpus' = Some(
                                 [i \in DOMAIN cleaned |->
                                     [comment |-> cleaned[i].comment,
                                      bot |-> cleaned[i].bot,
                                      admin |-> cleaned[i].admin,
                                      ns |-> cleaned[i].ns,
                                      year |-> cleaned[i].year,
                                      include |-> cleaned[i].include,
                                      attack |-> PyBool(p[i] > AttackThreshold)]])
                            /\ Advance
    /\ UNCHANGED <<remote, fs, defs, comments, annotations, labels,
                   train_comments, test_comments, auc, predicted_values,
                   precision_recall_fscore, cmat, out, corpus_user,
                   corpus_article>>

\* sns.pointplot(data = corpus, x = 'ns', y = 'attack'): per namespace, the
\* number of rows flagged and the number of rows
Plot ==
    /\ AtCell("plot")
    /\ IF /\ IsSet(corpus)
          /\ \A i \in DOMAIN Val(corpus) : "attack" \in DOMAIN Val(corpus)[i]
          /\ "imports2" \in defs
       THEN /\ out' = Some([n \in {Val(corpus)[i].ns : i \in DOMAIN Val(corpus)} |->
                        <<Cardinality({i \in DOMAIN Val(corpus) :
                              Val(corpus)[i].ns = n /\ Val(corpus)[i].attack = "True"}),
                          Cardinality({i \in DOMAIN Val(corpus) :
                              Val(corpus)[i].ns = n})>>])
            /\ Advance
       ELSE /\ Raise
            /\ UNCHANGED out
    /\ UNCHANGED <<remote, fs, defs, comments, annotations, labels,
                   train_comments, test_comments, clf, auc, predicted_values,
                   precision_recall_fscore, cmat, corpus_user, corpus_article,
                   corpus>>

(***************************************************************************)
(* Inputs                                                                  *)
(***************************************************************************)
NoFiles == [n \in {} |-> <<>>]

\* a fresh kernel in an empty working directory
FreshKernel ==
    /\ fs = NoFiles
    /\ pc = 1
    /\ halted = FALSE
    /\ defs = {}
    /\ comments = Unset /\ annotations = Unset /\ labels = Unset
    /\ train_comments = Unset /\ test_comments = Unset
    /\ clf = Unset /\ auc = Unset /\ predicted_values = Unset
    /\ precision_recall_fscore = Unset /\ cmat = Unset /\ out = Unset
    /\ corpus_user = Unset /\ corpus_article = Unset /\ corpus = Unset

\* a comment none of the cleaning rules touches
LabelText == <<"o","k">>

\* one chunk file of a talk corpus archive
ChunkName == <<"c","h","u","n","k","_","0",".","t","s","v">>
OtherName == <<"R","E","A","D","M","E">>

TalkRow(c, b, a, n, y) ==
    [comment |-> c, bot |-> b, admin |-> a, ns |-> n, year |-> y]

\* the two archives of the main run: one chunk each
SmallUserTar ==
    <<[name |-> ChunkName,
       rows |-> <<TalkRow(<<"b","a","d">> \o TAB_TOKEN, 0, 0, "user", 2004)>>]>>
SmallArticleTar ==
    <<[name |-> ChunkName,
       rows |-> <<TalkRow(<<"i","t"," ","i","s">>, 0, 0, "article", 2004)>>]>>

(***************************************************************************)
(* The whole notebook, run top to bottom                                   *)
(***************************************************************************)
Splits == {"train", "dev", "test"}

\* four comments the cleaning rules and the analyzer treat differently
BaseTexts ==
    <<<<"i","t"," ","i","s"," ","b","a","d">> \o NEWLINE_TOKEN,
      <<"e","d","i","t","s"," ","a","t"," ","7">>,
      <<"h","t","t","p",":","/","/","x"," ","o","k">>,
      TAB_TOKEN \o <<"b","a","d">>>>

\* a data set of the released shape: every comment is annotated and belongs
\* to one split; a fifth comment is always in dev
Init ==
    /\ FreshKernel
    /\ \E sp \in [DOMAIN BaseTexts -> Splits] :
       \E votes \in [DOMAIN BaseTexts -> {0, 1}] :
          remote = [comments_tsv |->
                        [i \in DOMAIN BaseTexts |->
                            [rev_id |-> i, comment |-> BaseTexts[i],
                             split |-> sp[i]]]
                        \o <<[rev_id |-> Len(BaseTexts) + 1,
                              comment |-> LabelText, split |-> "dev"]>>,
                    annotations_tsv |->
                        [i \in DOMAIN BaseTexts |->
                            [rev_id |-> i, attack |-> votes[i]]]
                        \o <<[rev_id |-> Len(BaseTexts) + 1, attack |-> 0]>>,
                    user_tar |-> SmallUserTar,
                    article_tar |-> SmallArticleTar]

Next ==
    \/ Imports \/ Download \/ ReadCsv \/ Unique \/ Labels \/ Join \/ Clean
    \/ QueryAttack
    \/ FitLogisticRegression \/ FitRandomForest \/ FitLinearSVC
    \/ FitMultinomialNB \/ FitMLP
    \/ PredictNice \/ PredictNasty
    \/ Imports2 \/ DownloadCorpus \/ DefLoad \/ LoadCorpus
    \/ ApplyModel \/ Plot

Spec == Init /\ [][Next]_vars

\* the comments frame the load, label, join and cleaning cells make of the
\* downloaded files
PreparedComments ==
    JoinLabels(CleanComments(remote.comments_tsv),
               LabelSeries(remote.annotations_tsv))

\* C6: when the cells run top to bottom, a classifier cell reads comments
\* only after the download, read_csv, label, join and cleaning cells have
\* run: the rows it selects, fits and evaluates on are the cleaned and
\* labelled ones.
C6_FitOnPreparedComments ==
    IsSet(clf) =>
        /\ pc >= PosOf("lr")
        /\ {"attack_annotated_comments.tsv", "attack_annotations.tsv"}
              \subseteq DOMAIN fs
        /\ IsSet(labels)
        /\ comments = Some(PreparedComments)
        /\ train_comments = Some(QuerySplit(PreparedComments, "train"))
        /\ test_comments = Some(QuerySplit(PreparedComments, "test"))
        /\ Val(clf).fitted =>
              /\ Val(clf).fit_X = Column(Val(train_comments), "comment")
              /\ Val(clf).fit_y = Column(Val(train_comments), "attack")
              /\ Range(Val(clf).fit_y) = {"True", "False"}
        /\ IsSet(auc) =>
              Range(Column(Val(test_comments), "comment"))
                 \subseteq DOMAIN Val(clf).scores

\* a classifier was fitted and evaluated, on training rows one of which the
\* cleaning cell changed
C6_Witness ==
    /\ IsSet(clf)
    /\ Val(clf).fitted
    /\ IsSet(auc)
    /\ \E i \in DOMAIN Val(train_comments) :
          Val(train_comments)[i].comment
             # remote.comments_tsv[Val(train_comments)[i].rev_id].comment

\* C7: the five classifier cells differ in the estimator only: whichever ran
\* last, the reported Test ROC AUC is roc_auc_score of the test labels and
\* the predicted positive-class probability of the test comments.
C7_AucFromProbability ==
    (~halted /\ IsSet(auc) /\ IsSet(clf) /\ Val(clf).fitted) =>
        Val(auc) = RocAucScore(Column(Val(test_comments), "attack"),
                               PredictProba(Val(clf),
                                   Column(Val(test_comments), "comment")))

Applied == ~halted /\ pc > PosOf("apply")

\* C8: when the cells run top to bottom, the classifier applied to the talk
\* corpus is the logistic regression pipeline fitted in the cell marked
\* FINAL SUBMITTED ONE.
C8_AppliesFinalClassifier ==
    Applied => Val(clf).estimator = LRCell.estimator

\* C10: stop words are removed before the comments are vectorized: no
\* pipeline fitted and evaluated by a classifier cell has a stop word in its
\* vocabulary.
C10_NoStopWordFeature ==
    (~halted /\ IsSet(clf) /\ Val(clf).fitted) =>
        Val(clf).vocabulary \cap StopWords = {}

(***************************************************************************)
(* The label step on its own: the notebook up to the join                  *)
(***************************************************************************)
MaxAnnotations == 4
LabelRevIds == {1, 2}

\* the comments file holds each rev_id at most once, in any order; the
\* annotations file is any sequence of votes on those rev_ids
InitLabel ==
    /\ FreshKernel
    /\ \E revs \in {<<1>>, <<2>>, <<1, 2>>, <<2, 1>>} :
       \E ann \in SeqsUpTo([rev_id : LabelRevIds, attack : {0, 1}],
                           MaxAnnotations) :
          remote = [comments_tsv |->
                        [i \in DOMAIN revs |->
                            [rev_id |-> revs[i], comment |-> LabelText,
                             split |-> "train"]],
                    annotations_tsv |-> ann,
                    user_tar |-> SmallUserTar,
                    article_tar |-> SmallArticleTar]

NextLabel == Imports \/ Download \/ ReadCsv \/ Unique \/ Labels \/ Join

SpecLabel == InitLabel /\ [][NextLabel]_vars

Joined == ~halted /\ pc > PosOf("join")

\* the rows of the annotations file that vote on rev_id r
VotesOn(r) ==
    {k \in DOMAIN remote.annotations_tsv : remote.annotations_tsv[k].rev_id = r}

YesVotesOn(r) == {k \in VotesOn(r) : remote.annotations_tsv[k].attack = 1}

\* C1: after the label step and the join a comment's attack label is True
\* exactly when strictly more than half of the annotations of its rev_id
\* say attack; an exact tie gives False.  The condition counts rows of the
\* annotations file, so it is the same for every order of either file.
C1_MajorityLabel ==
    Joined =>
        \A i \in DOMAIN Val(comments) :
            LET row == Val(comments)[i]
                n == Cardinality(VotesOn(row.rev_id))
                y == Cardinality(YesVotesOn(row.rev_id))
            IN  /\ (row.attack = "True") <=> (2 * y > n)
                /\ (n > 0 /\ 2 * y = n) => row.attack = "False"
                /\ row.rev_id = remote.comments_tsv[i].rev_id

\* a joined frame, later in the file than an out-of-order vote, with a tied
\* comment labelled False and a majority comment labelled True
C1_Witness ==
    /\ Joined
    /\ \E i, j \in DOMAIN Val(comments) :
          /\ Cardinality(VotesOn(Val(comments)[i].rev_id)) = 2
          /\ Cardinality(YesVotesOn(Val(comments)[i].rev_id)) = 1
          /\ Val(comments)[i].attack = "False"
          /\ Cardinality(VotesOn(Val(comments)[j].rev_id)) = 2
          /\ Cardinality(YesVotesOn(Val(comments)[j].rev_id)) = 2
          /\ Val(comments)[j].attack = "True"
          /\ remote.annotations_tsv[1].rev_id = 2
          /\ remote.comments_tsv[1].rev_id = 2

(***************************************************************************)
(* The cleaning cell on its own: the notebook up to the cleaning cell,     *)
(* over one comment built from the pieces the five rules look for          *)
(***************************************************************************)
MaxPieces == 3

Pieces ==
    {<<"N","E","W","L","I","N","E","_">>, <<"T","O","K","E","N">>,
     <<"T","A","B","_">>, PunctPattern, HttpPattern, DigitPattern,
     <<"h","t","t","p",":","/","/","x">>, <<"7">>, <<"@">>, <<" ">>,
     <<"a","t">>}

InitClean ==
    /\ FreshKernel
    /\ \E ps \in SeqsUpTo(Pieces, MaxPieces) :
          remote = [comments_tsv |->
                        <<[rev_id |-> 1, comment |-> Flatten(ps),
                           split |-> "train"]>>,
                    annotations_tsv |-> <<[rev_id |-> 1, attack |-> 1]>>,
                    user_tar |-> SmallUserTar,
                    article_tar |-> SmallArticleTar]

NextClean ==
    Imports \/ Download \/ ReadCsv \/ Unique \/ Labels \/ Join \/ Clean

SpecClean == InitClean /\ [][NextClean]_vars

Cleaned == ~halted /\ pc > PosOf("clean")

\* "http" followed by at least one character that is not whitespace
ContainsHyperlink(s) ==
    \E i \in 1..(Len(s) - 4) :
        /\ SubSeq(s, i, i + 3) = <<"h","t","t","p">>
        /\ s[i + 4] \notin Whitespace

ContainsDigit(s) == \E i \in DOMAIN s : s[i] \in Digits

\* a character the punctuation rule means to blank
ContainsOtherMark(s) ==
    \E i \in DOMAIN s :
        s[i] \notin Letters \cup Digits \cup Whitespace \cup KeptMarks

\* C2: after the cleaning cell no comment contains NEWLINE_TOKEN or
\* TAB_TOKEN, whatever the input comment.
C2_NoTokensLeft ==
    Cleaned =>
        \A i \in DOMAIN Val(comments) :
            /\ ~Contains(Val(comments)[i].comment, NEWLINE_TOKEN)
            /\ ~Contains(Val(comments)[i].comment, TAB_TOKEN)

\* C3: after the cleaning cell no comment contains a hyperlink ("http"
\* followed by one or more non-whitespace characters).
C3_NoHyperlinkLeft ==
    Cleaned =>
        \A i \in DOMAIN Val(comments) :
            ~ContainsHyperlink(Val(comments)[i].comment)

\* C4: after the cleaning cell no comment contains a digit.
C4_NoDigitLeft ==
    Cleaned =>
        \A i \in DOMAIN Val(comments) : ~ContainsDigit(Val(comments)[i].comment)

\* C5: after the cleaning cell no comment contains a character other than
\* a letter, a digit, whitespace or one of the marks ' . , " : ; ? - !
C5_NoOtherMarkLeft ==
    Cleaned =>
        \A i \in DOMAIN Val(comments) :
            ~ContainsOtherMark(Val(comments)[i].comment)

(***************************************************************************)
(* The corpus sample on its own: the second part of the notebook up to the *)
(* cell that calls load_no_bot_no_admin, in a kernel where the first two   *)
(* cells have run                                                          *)
(***************************************************************************)
MaxRows == 2

\* a row of a chunk file: written by a bot or not, by an admin or not, and
\* carrying the ns and year the sample is asked for or other ones
TalkRows ==
    {TalkRow(<<"o","k">>, b, a, ny[1], ny[2]) :
        b \in {0, 1}, a \in {0, 1},
        ny \in {<<"user", 2004>>, <<"article", 2003>>}}

SecondChunk ==
    [name |-> <<"c","h","u","n","k","_","1","2",".","t","s","v">>,
     rows |-> <<TalkRow(<<"u"," ","r"," ","b","a","d">>, 0, 0, "user", 2004)>>]

InitLoad ==
    /\ pc = PosOf("imports2")
    /\ halted = FALSE
    /\ defs = {"imports", "download_file"}
    /\ comments = Unset /\ annotations = Unset /\ labels = Unset
    /\ train_comments = Unset /\ test_comments = Unset
    /\ clf = Unset /\ auc = Unset /\ predicted_values = Unset
    /\ precision_recall_fscore = Unset /\ cmat = Unset /\ out = Unset
    /\ corpus_user = Unset /\ corpus_article = Unset /\ corpus = Unset
    /\ \E name \in {ChunkName, OtherName} :
       \E rows \in SeqsUpTo(TalkRows, MaxRows) :
       \E more \in {<<>>, <<SecondChunk>>} :
          remote = [comments_tsv |->
                        <<[rev_id |-> 1, comment |-> LabelText,
                           split |-> "train"]>>,
                    annotations_tsv |-> <<[rev_id |-> 1, attack |-> 1]>>,
                    user_tar |-> <<[name |-> name, rows |-> rows]>> \o more,
                    article_tar |-> SmallArticleTar]
    /\ fs = ("attack_annotated_comments.tsv" :> remote.comments_tsv)
            @@ ("attack_annotations.tsv" :> remote.annotations_tsv)

NextLoad == Imports2 \/ DownloadCorpus \/ DefLoad \/ LoadCorpus

SpecLoad == InitLoad /\ [][NextLoad]_vars

Loaded == ~halted /\ pc > PosOf("load_corpus")

\* every row of sample is a kept row of a chunk of the archive
FromArchive(sample, tar, ns, year) ==
    \A i \in DOMAIN sample :
        /\ sample[i].bot = 0 /\ sample[i].admin = 0 /\ sample[i].include = 1
        /\ sample[i].ns = ns /\ sample[i].year = year
        /\ \E f \in DOMAIN tar : \E r \in DOMAIN tar[f].rows :
              /\ tar[f].rows[r].comment = sample[i].comment
              /\ tar[f].rows[r].bot = 0
              /\ tar[f].rows[r].admin = 0

\* C9: every row load_no_bot_no_admin(ns, year) returns has bot = 0,
\* admin = 0 and include = 1 and carries the ns and year of the call, and
\* comes from a row no bot and no admin wrote, whatever the draws.
C9_NoBotNoAdmin ==
    Loaded =>
        /\ FromArchive(Val(corpus_user), remote.user_tar, "user", 2004)
        /\ FromArchive(Val(corpus_article), remote.article_tar, "article", 2004)

\* a sample was drawn from a chunk that also holds an admin's row and a
\* bot's row, and its one returned row had another ns and year in the file
C9_Witness ==
    /\ Loaded
    /\ Len(Val(corpus_user)) = 1
    /\ Len(remote.user_tar) = 1
    /\ \E r \in DOMAIN remote.user_tar[1].rows :
          /\ remote.user_tar[1].rows[r].admin = 1
          /\ remote.user_tar[1].rows[r].bot = 0
    /\ \E r \in DOMAIN remote.user_tar[1].rows :
          /\ remote.user_tar[1].rows[r].admin = 0
          /\ remote.user_tar[1].rows[r].bot = 0
          /\ remote.user_tar[1].rows[r].ns = "article"

=============================================================================
